---- MODULE Spec2Model ----
(***************************************************************************)
(* Model of the Rollup config generators of sentry-javascript              *)
(* (rollup.config.js): the negative-index array helper insertAt, the       *)
(* bundle config builder makeBaseBundleConfig, the variant expander        *)
(* makeBundleConfigVariants, the package config builders                   *)
(* makeBaseNPMConfig and makeNPMConfigVariants, and of the post-build      *)
(* script that prepares the build directory for packaging.                 *)
(*                                                                         *)
(* JavaScript arrays are objects: the model keeps them in a heap, a        *)
(* sequence of array contents whose index is the array's reference, so     *)
(* that aliasing and in-place mutation can be told from copying.  JS       *)
(* positions are 0-based, TLA+ sequences 1-based: At(s, i) reads the JS    *)
(* position i.                                                             *)
(***************************************************************************)
EXTENDS Integers, Sequences, FiniteSets, TLC

VARIABLES
    heap,        \* array objects: heap[r] is the content of the array with reference r
    iaCall,      \* the last insertAt call made directly: arguments, snapshot, result
    pc,          \* position of the bundle build: "input", "expanded", "failed"
    nextInst,    \* next fresh plugin instance identity
    baseConfig,  \* the base bundle config handed to makeBundleConfigVariants
    baseBefore,  \* snapshot of the base config and its plugin array taken at the call
    result,      \* outcome of makeBundleConfigVariants: error kind and returned configs
    mutated,     \* the returned configs (by position) whose plugin array the caller edited
    npm,         \* outcome of makeBaseNPMConfig: manifest, built-ins, external list
    pb           \* the post-build script: its position and the files it reads and writes

vars == <<heap, iaCall, pc, nextInst, baseConfig, baseBefore, result, mutated, npm, pb>>

\* ------------------------------------------------------------------ bounds
MaxLen == 3          \* longest input array
MaxInsertees == 2    \* most items passed to one insertAt call
MaxIndex == 5        \* index arguments range over -MaxIndex..MaxIndex

\* ------------------------------------------------------------ small helpers
Min(a, b) == IF a < b THEN a ELSE b
Max(a, b) == IF a > b THEN a ELSE b

SeqsUpTo(S, n) == UNION {[1..k -> S] : k \in 0..n}

\* the element at JS (0-based) position i
At(s, i) == s[i + 1]
HasAt(s, i) == i >= 0 /\ i < Len(s)

\* -------------------------------------------------- rollup.config.js 41-51

\* getLastElement: array[array.length - 1], undefined for an empty array
Undefined == [kind |-> "undefined"]
getLastElement(array) == IF Len(array) = 0 THEN Undefined ELSE At(array, Len(array) - 1)

\* Array.prototype.splice(start, 0, ...items): a negative start counts from
\* the end and is clamped at 0, a start beyond the end is clamped to the length
spliceStart(len, start) == IF start < 0 THEN Max(len + start, 0) ELSE Min(start, len)

splice(s, start, items) ==
    LET k == spliceStart(Len(s), start)
    IN  SubSeq(s, 1, k) \o items \o SubSeq(s, k + 1, Len(s))

destinationIndexNoPlusOne(len, index) == IF index >= 0 THEN index ELSE len + index
destinationIndexZeroNegative(len, index) == IF index > 0 THEN index ELSE len + 1 + index
destinationIndexMinusOne(len, index) == IF index >= 0 THEN index ELSE len - 1 + index

\* const destinationIndex = index >= 0 ? index : arr.length + 1 + index
destinationIndex(len, index) == IF index >= 0 THEN index ELSE len + 1 + index

insertAtInPlace(h, arr, index, insertees) ==
    [heap |-> [h EXCEPT ![arr] = splice(h[arr], destinationIndex(Len(h[arr]), index), insertees)],
     ref  |-> arr]

\* insertAt(arr, index, ...insertees): copy arr into a new array object,
\* splice the insertees into the copy, return the copy
insertAt(h, arr, index, insertees) ==
    LET newArr == Len(h) + 1
        h1     == Append(h, h[arr])                       \* const newArr = [...arr]
        dest   == destinationIndex(Len(h[arr]), index)
        h2     == [h1 EXCEPT ![newArr] = splice(h1[newArr], dest, insertees)]
    IN  [heap |-> h2, ref |-> newArr]

\* --------------------------------------------------- direct insertAt calls
Elems == {"a", "b", "c"}
Insertable == {"x", "y"}

NoCall == [made |-> FALSE]
NoConfig == [kind |-> "none"]
NoResult == [status |-> "none", configs |-> <<>>]
NoNpm == [made |-> FALSE]
NoPostbuild == [pc |-> "none"]

InitInsertAt ==
    /\ heap \in {<<s>> : s \in SeqsUpTo(Elems, MaxLen)}
    /\ iaCall = NoCall
    /\ pc = "input"
    /\ nextInst = 0
    /\ baseConfig = NoConfig
    /\ baseBefore = NoConfig
    /\ result = NoResult
    /\ mutated = <<>>
    /\ npm = NoNpm
    /\ pb = NoPostbuild

CallInsertAt(arr, index, insertees) ==
    /\ iaCall = NoCall
    /\ LET r == insertAt(heap, arr, index, insertees)
       IN  /\ heap' = r.heap
           /\ iaCall' = [made |-> TRUE, arr |-> arr, index |-> index,
                         insertees |-> insertees, before |-> heap[arr],
                         heapBefore |-> heap, ret |-> r.ref]
    /\ UNCHANGED <<pb, pc, nextInst, baseConfig, baseBefore, result, mutated, npm>>

NextInsertAt ==
    \E arr \in 1..Len(heap), index \in -MaxIndex..MaxIndex,
       insertees \in SeqsUpTo(Insertable, MaxInsertees) :
        CallInsertAt(arr, index, insertees)

SpecInsertAt == InitInsertAt /\ [][NextInsertAt]_vars

\* the array returned by the last direct call, and its argument as it was
Returned == heap[iaCall.ret]
Given == iaCall.before
OneItem == iaCall.made /\ Len(iaCall.insertees) = 1
Item == iaCall.insertees[1]

\* ------------------------------------------------ rollup.config.js 53-100

\* plugin objects: kind and options say what the plugin does, name is the
\* plugin's `name` property, inst is the identity of the object
Plugin(kind, name, opt, inst) == [kind |-> kind, name |-> name, opt |-> opt, inst |-> inst]

LicensePluginName == "rollup-plugin-license"

\* const nodeResolvePlugin = resolve(): one object for the whole module
nodeResolvePlugin == Plugin("resolve", "node-resolve", "", 1)

\* export const terserPlugin = terser({...}): one object for the whole module
terserPlugin == Plugin("terser", "terser", "mangle", 2)

\* makeLicensePlugin(title): a new rollup-plugin-license instance
makeLicensePlugin(title, inst) == Plugin("license", LicensePluginName, title, inst)

\* makeIsDebugBuildPlugin(includeDebugging): a new replace plugin that sets
\* __SENTRY_DEBUG__ to includeDebugging
makeIsDebugBuildPlugin(includeDebugging, inst) ==
    Plugin("replace", "replace",
           IF includeDebugging THEN "__SENTRY_DEBUG__=true" ELSE "__SENTRY_DEBUG__=false",
           inst)

\* typescript(deepMerge(baseTSPluginOptions, {... target ...}))
typescriptPlugin(target, inst) == Plugin("typescript", "rpt2", target, inst)

\* replace({ values: { __SENTRY_BROWSER_BUNDLE__: true } })
makeMarkAsBrowserBuildPlugin(inst) ==
    Plugin("replace", "replace", "__SENTRY_BROWSER_BUNDLE__=true", inst)

\* first plugin instance identity not taken by the module-level plugins and
\* the plugins of the given pipelines
FirstFreeInst == 10

\* ------------------------------------------------------ deepmerge (library)

\* mergeObject on objects whose values are scalars: the keys of both, the
\* source's value wins
mergeObject(target, source) ==
    [k \in (DOMAIN target) \cup (DOMAIN source) |->
        IF k \in DOMAIN source THEN source[k] ELSE target[k]]

\* cloneUnlessOtherwiseSpecified on an array of plugin objects: every element
\* is copied into a new object
clonePlugins(s, n) == [i \in 1..Len(s) |-> [s[i] EXCEPT !.inst = n + i - 1]]

\* an array-valued key present in the target only: the array and its elements are cloned
cloneArray(h, n, arr) ==
    [heap |-> Append(h, clonePlugins(h[arr], n)), ref |-> Len(h) + 1, next |-> n + Len(h[arr])]

\* deepmerge's default arrayMerge: target.concat(source), every element cloned
arrayMergeConcat(h, n, first, second) ==
    [heap |-> Append(h, clonePlugins(h[first] \o h[second], n)),
     ref  |-> Len(h) + 1,
     next |-> n + Len(h[first]) + Len(h[second])]

\* arrayMerge: (first, second) => second
arrayMergeSecond(h, n, first, second) == [heap |-> h, ref |-> second, next |-> n]

\* deepMerge(target, source, options) on configs: output is merged key by
\* key, plugins (when the source has them) go through arrayMerge, and are
\* cloned otherwise; every other key of the target is kept
deepMergeConfig(h, n, target, source) ==
    LET m == IF "plugins" \in DOMAIN source
                THEN arrayMergeSecond(h, n, target.plugins, source.plugins)
                ELSE cloneArray(h, n, target.plugins)
    IN  [heap |-> m.heap, next |-> m.next,
         config |-> [k \in (DOMAIN target) \cup (DOMAIN source) |->
                        CASE k = "output"  -> mergeObject(target.output, source.output)
                          [] k = "plugins" -> m.ref
                          [] OTHER -> IF k \in DOMAIN source THEN source[k] ELSE target[k]]]

\* ----------------------------------------------- rollup.config.js 102-226

\* jsVersion.toLowerCase() on the spellings callers use
toLowerCase(str) ==
    CASE str = "ES5" -> "es5"
      [] str = "ES6" -> "es6"
      [] OTHER -> str

standAloneBundleConfig ==
    [output |-> [format |-> "iife", name |-> "Sentry"], context |-> "window"]

addOnBundleConfig ==
    [output |-> [format |-> "cjs",
                 banner |-> "(function (__window) {",
                 intro  |-> "var exports = {};",
                 outro  |-> "merge exports into Sentry.Integrations",
                 footer |-> "}(window));"]]

sharedBundlePluginsLicenseFirst(ts, mark, res, lic) == <<lic, ts, mark, res>>

\* plugins: [typescript plugin, markAsBrowserBuildPlugin, nodeResolvePlugin, licensePlugin]
sharedBundlePlugins(ts, mark, res, lic) == <<ts, mark, res, lic>>

sharedBundleConfig(input, outputFileBase, plugins) ==
    [input |-> input,
     output |-> [file |-> "build/" \o outputFileBase, sourcemap |-> TRUE,
                 strict |-> FALSE, esModule |-> FALSE],
     plugins |-> plugins,
     treeshake |-> "smallest"]

\* makeBaseBundleConfig(options): n is the next fresh instance identity
makeBaseBundleConfig(h, n, input, isAddOn, jsVersion, licenseTitle, outputFileBase) ==
    LET typescriptPluginES5 == typescriptPlugin("es5", n)
        typescriptPluginES6 == typescriptPlugin("es6", n + 1)
        markAsBrowserBuildPlugin == makeMarkAsBrowserBuildPlugin(n + 2)
        licensePlugin == makeLicensePlugin(licenseTitle, n + 3)
        plugins == sharedBundlePlugins(
                       IF toLowerCase(jsVersion) = "es5" THEN typescriptPluginES5
                                                         ELSE typescriptPluginES6,
                       markAsBrowserBuildPlugin, nodeResolvePlugin, licensePlugin)
        h1 == Append(h, plugins)
        shared == sharedBundleConfig(input, outputFileBase, Len(h1))
    IN  deepMergeConfig(h1, n + 4, shared,
                        IF isAddOn THEN addOnBundleConfig ELSE standAloneBundleConfig)

\* ----------------------------------------------- rollup.config.js 228-285

VariantSpliceIndex == -2

variantSpecificConfigsMinifierFirst(h, file, plugins, includeDebuggingPlugin, stripDebuggingPlugin) ==
    LET a == insertAt(h, plugins, VariantSpliceIndex, <<includeDebuggingPlugin>>)
        b == insertAt(a.heap, plugins, VariantSpliceIndex, <<terserPlugin, stripDebuggingPlugin>>)
        c == insertAt(b.heap, plugins, VariantSpliceIndex, <<terserPlugin, includeDebuggingPlugin>>)
    IN  [heap |-> c.heap,
         variants |-> << [output |-> [file |-> file \o ".js"], plugins |-> a.ref],
                         [output |-> [file |-> file \o ".min.js"], plugins |-> b.ref],
                         [output |-> [file |-> file \o ".debug.min.js"], plugins |-> c.ref] >>]

variantSpecificConfigsDebugMinSecond(h, file, plugins, includeDebuggingPlugin, stripDebuggingPlugin) ==
    LET a == insertAt(h, plugins, VariantSpliceIndex, <<includeDebuggingPlugin>>)
        b == insertAt(a.heap, plugins, VariantSpliceIndex, <<includeDebuggingPlugin, terserPlugin>>)
        c == insertAt(b.heap, plugins, VariantSpliceIndex, <<stripDebuggingPlugin, terserPlugin>>)
    IN  [heap |-> c.heap,
         variants |-> << [output |-> [file |-> file \o ".js"], plugins |-> a.ref],
                         [output |-> [file |-> file \o ".debug.min.js"], plugins |-> b.ref],
                         [output |-> [file |-> file \o ".min.js"], plugins |-> c.ref] >>]

\* const variantSpecificConfigs = [ {.js}, {.min.js}, {.debug.min.js} ]
variantSpecificConfigs(h, file, plugins, includeDebuggingPlugin, stripDebuggingPlugin) ==
    LET a == insertAt(h, plugins, VariantSpliceIndex, <<includeDebuggingPlugin>>)
        b == insertAt(a.heap, plugins, VariantSpliceIndex, <<stripDebuggingPlugin, terserPlugin>>)
        c == insertAt(b.heap, plugins, VariantSpliceIndex, <<includeDebuggingPlugin, terserPlugin>>)
    IN  [heap |-> c.heap,
         variants |-> << [output |-> [file |-> file \o ".js"], plugins |-> a.ref],
                         [output |-> [file |-> file \o ".min.js"], plugins |-> b.ref],
                         [output |-> [file |-> file \o ".debug.min.js"], plugins |-> c.ref] >>]

RECURSIVE mergeVariants(_, _, _, _)
\* variantSpecificConfigs.map(variant => deepMerge(baseConfig, variant, {arrayMerge}))
mergeVariants(h, n, base, variants) ==
    IF variants = <<>>
    THEN [heap |-> h, next |-> n, configs |-> <<>>]
    ELSE LET m    == deepMergeConfig(h, n, base, Head(variants))
             rest == mergeVariants(m.heap, m.next, base, Tail(variants))
         IN  [heap |-> rest.heap, next |-> rest.next, configs |-> <<m.config>> \o rest.configs]

\* makeBundleConfigVariants(baseConfig): reading .name of the undefined last
\* element of an empty array throws a TypeError before assert is entered; a
\* last element with another name fails the assert with an AssertionError
makeBundleConfigVariants(h, n, base) ==
    LET plugins == base.plugins
        includeDebuggingPlugin == makeIsDebugBuildPlugin(TRUE, n)
        stripDebuggingPlugin == makeIsDebugBuildPlugin(FALSE, n + 1)
        last == getLastElement(h[plugins])
    IN  IF last = Undefined
        THEN [status |-> "TypeError", heap |-> h, next |-> n + 2, configs |-> <<>>]
        ELSE IF last.name # LicensePluginName
        THEN [status |-> "AssertionError", heap |-> h, next |-> n + 2, configs |-> <<>>]
        ELSE LET v == variantSpecificConfigs(h, base.output.file, plugins,
                                             includeDebuggingPlugin, stripDebuggingPlugin)
                 m == mergeVariants(v.heap, n + 2, base, v.variants)
             IN  [status |-> "ok", heap |-> m.heap, next |-> m.next, configs |-> m.configs]

\* ------------------------------------------------------- the bundle build

MaxPlugins == 3      \* longest plugin pipeline a caller hands over
MaxEdits == 1        \* edits a caller makes to the returned plugin arrays

\* plugins a caller-built pipeline is made of (the integrations config
\* injects the commonjs plugin)
commonjsPlugin == Plugin("commonjs", "commonjs", "", 5)
GivenPlugins == {nodeResolvePlugin, makeMarkAsBrowserBuildPlugin(3),
                 makeLicensePlugin("Sentry", 4), commonjsPlugin}
extraPlugin == Plugin("extra", "extra", "", 6)

JsVersions == {"es5", "ES5", "es6", "ES6"}

Init ==
    /\ heap = <<>>
    /\ iaCall = NoCall
    /\ pc = "start"
    /\ nextInst = FirstFreeInst
    /\ baseConfig = NoConfig
    /\ baseBefore = NoConfig
    /\ result = NoResult
    /\ mutated = <<>>
    /\ npm = NoNpm
    /\ pb = NoPostbuild

\* the package's config calls makeBaseBundleConfig
MakeBaseBundleConfig(isAddOn, jsVersion, outputFileBase) ==
    /\ pc = "start"
    /\ LET r == makeBaseBundleConfig(heap, nextInst, "src/index.ts", isAddOn, jsVersion,
                                     "Sentry", outputFileBase)
       IN  /\ heap' = r.heap
           /\ nextInst' = r.next
           /\ baseConfig' = r.config
    /\ pc' = "built"
    /\ UNCHANGED <<pb, iaCall, baseBefore, result, mutated, npm>>

\* the caller hands makeBundleConfigVariants a base config of its own, with
\* any plugin pipeline
GivenBaseConfig(isAddOn, P) ==
    /\ pc = "start"
    /\ heap' = Append(heap, P)
    /\ LET shared == sharedBundleConfig("src/index.ts", "bundle", Len(heap) + 1)
           shape  == IF isAddOn THEN addOnBundleConfig ELSE standAloneBundleConfig
       IN  baseConfig' = [k \in (DOMAIN shared) \cup (DOMAIN shape) |->
                            CASE k = "output" -> mergeObject(shared.output, shape.output)
                              [] OTHER -> IF k \in DOMAIN shape THEN shape[k] ELSE shared[k]]
    /\ pc' = "given"
    /\ UNCHANGED <<pb, iaCall, nextInst, baseBefore, result, mutated, npm>>

\* makeBundleConfigVariants(baseConfig) returns or throws
MakeBundleConfigVariants ==
    /\ pc \in {"built", "given"}
    /\ LET r == makeBundleConfigVariants(heap, nextInst, baseConfig)
       IN  /\ heap' = r.heap
           /\ nextInst' = r.next
           /\ result' = [status |-> r.status, configs |-> r.configs,
                         arrays |-> [k \in 1..Len(r.configs) |-> r.heap[r.configs[k].plugins]]]
           /\ pc' = IF r.status = "ok" THEN "expanded" ELSE "failed"
    /\ baseBefore' = [config |-> baseConfig, plugins |-> heap[baseConfig.plugins]]
    /\ UNCHANGED <<pb, iaCall, baseConfig, mutated, npm>>

\* the caller edits the plugin array of the k-th returned config in place
Edits(arr) ==
    {[op |-> "push"]} \cup (IF Len(arr) > 0 THEN {[op |-> "pop"]} ELSE {})
        \cup {[op |-> "set", at |-> i] : i \in 0..(Len(arr) - 1)}

applyEdit(arr, e) ==
    CASE e.op = "push" -> Append(arr, extraPlugin)
      [] e.op = "pop"  -> SubSeq(arr, 1, Len(arr) - 1)
      [] e.op = "set"  -> [arr EXCEPT ![e.at + 1] = extraPlugin]

EditVariantPlugins(k, e) ==
    /\ pc = "expanded"
    /\ Len(mutated) < MaxEdits
    /\ heap' = [heap EXCEPT ![result.configs[k].plugins] = applyEdit(@, e)]
    /\ mutated' = Append(mutated, k)
    /\ UNCHANGED <<pb, iaCall, pc, nextInst, baseConfig, baseBefore, result, npm>>

Next ==
    \/ \E isAddOn \in BOOLEAN, jsVersion \in JsVersions, outputFileBase \in {"bundle", "bundle.es6"} :
          MakeBaseBundleConfig(isAddOn, jsVersion, outputFileBase)
    \/ \E isAddOn \in BOOLEAN, P \in SeqsUpTo(GivenPlugins, MaxPlugins) :
          GivenBaseConfig(isAddOn, P)
    \/ MakeBundleConfigVariants
    \/ \E k \in 1..Len(result.configs) :
          \E e \in Edits(heap[result.configs[k].plugins]) : EditVariantPlugins(k, e)

Spec == Init /\ [][Next]_vars

\* the base pipeline as it was at the call, and the arrays as returned
BasePlugins == baseBefore.plugins
Expanded == pc = "expanded"
VariantPlugins(k) == result.arrays[k]
IsDebugFlag(p, enabled) ==
    p.kind = "replace" /\ p.opt = (IF enabled THEN "__SENTRY_DEBUG__=true"
                                              ELSE "__SENTRY_DEBUG__=false")
Front(s) == SubSeq(s, 1, Len(s) - 1)
Last(s) == s[Len(s)]

\* ----------------------------------------------- rollup.config.js 287-347

MaxDeps == 2         \* most keys in one dependency category of the manifest

sucrasePlugin(inst) == Plugin("sucrase", "sucrase", "typescript", inst)
constToVarPlugin(inst) == Plugin("re", "re", "const->var", inst)

\* Object.keys(packageDotJSON[category] || {}): the keys in insertion order,
\* none when the manifest has no such category
dependencyKeys(packageDotJSON, category) ==
    IF category \in DOMAIN packageDotJSON THEN packageDotJSON[category] ELSE <<>>

externalWithoutPeers(builtinModules, packageDotJSON) ==
    builtinModules
        \o dependencyKeys(packageDotJSON, "dependencies")
        \o dependencyKeys(packageDotJSON, "devDependencies")

\* external: [...builtinModules, ...dependencies, ...devDependencies, ...peerDependencies]
external(builtinModules, packageDotJSON) ==
    builtinModules
        \o dependencyKeys(packageDotJSON, "dependencies")
        \o dependencyKeys(packageDotJSON, "devDependencies")
        \o dependencyKeys(packageDotJSON, "peerDependencies")

\* makeBaseNPMConfig(options = {}); an empty entrypoint stands for a missing one
makeBaseNPMConfig(h, n, builtinModules, packageDotJSON, entrypoint, esModuleInterop) ==
    [heap |-> Append(h, <<nodeResolvePlugin, sucrasePlugin(n), constToVarPlugin(n + 1)>>),
     next |-> n + 2,
     config |-> [input |-> IF entrypoint = "" THEN "src/index.ts" ELSE entrypoint,
                 output |-> [sourcemap |-> TRUE, preserveModules |-> TRUE,
                             generatedCode |-> "es2015", strict |-> FALSE,
                             externalLiveBindings |-> FALSE,
                             interop |-> IF esModuleInterop THEN "auto" ELSE "esModule"],
                 plugins |-> Len(h) + 1,
                 external |-> external(builtinModules, packageDotJSON),
                 treeshake |-> FALSE]]

\* ----------------------------------------------- rollup.config.js 349-357

\* const variantSpecificConfigs = [ {cjs, build/dist}, {esm, build/esm} ]
npmVariantSpecificConfigs ==
    << [output |-> [format |-> "cjs", dir |-> "build/dist"]],
       [output |-> [format |-> "esm", dir |-> "build/esm"]] >>

makeNPMConfigVariantsPluginsRepeated(h, n, base) ==
    LET r == mergeVariants(h, n, base, npmVariantSpecificConfigs)
    IN  [r EXCEPT !.heap = [q \in DOMAIN r.heap |->
                               IF q > Len(h) THEN r.heap[q] \o r.heap[q] ELSE r.heap[q]]]

\* variantSpecificConfigs.map(variant => deepMerge(baseConfig, variant)): no
\* variant carries an array, so no arrayMerge is applied; the base's plugin
\* array is cloned into each merged config
makeNPMConfigVariants(h, n, base) ==
    mergeVariants(h, n, base, npmVariantSpecificConfigs)

\* ------------------------------------------------------ the package build
PackageNames == {"a", "b", "c"}
Categories == {"dependencies", "devDependencies", "peerDependencies"}
BuiltinLists == {<<>>, <<"fs">>, <<"fs", "path">>}

IsInjective(s) == \A i, j \in 1..Len(s) : s[i] = s[j] => i = j
\* the keys of one object: distinct names
KeyLists == {s \in SeqsUpTo(PackageNames, MaxDeps) : IsInjective(s)}
\* package.json with any subset of the three categories
Manifests == UNION {[cats -> KeyLists] : cats \in SUBSET Categories}

\* the module is loaded: package.json is read, the platform's built-ins are known
InitNPM ==
    /\ heap = <<>>
    /\ iaCall = NoCall
    /\ pc = "start"
    /\ nextInst = FirstFreeInst
    /\ baseConfig = NoConfig
    /\ baseBefore = NoConfig
    /\ result = NoResult
    /\ mutated = <<>>
    /\ npm \in {[made |-> FALSE, packageDotJSON |-> m, builtinModules |-> b] :
                    m \in Manifests, b \in BuiltinLists}
    /\ pb = NoPostbuild

MakeBaseNPMConfig(entrypoint, esModuleInterop) ==
    /\ ~npm.made
    /\ LET r == makeBaseNPMConfig(heap, nextInst, npm.builtinModules, npm.packageDotJSON,
                                  entrypoint, esModuleInterop)
       IN  /\ heap' = r.heap
           /\ nextInst' = r.next
           /\ npm' = [made |-> TRUE, packageDotJSON |-> npm.packageDotJSON,
                      builtinModules |-> npm.builtinModules, config |-> r.config]
    /\ UNCHANGED <<pb, iaCall, pc, baseConfig, baseBefore, result, mutated>>

\* the package's config hands the base config to makeNPMConfigVariants
MakeNPMConfigVariants ==
    /\ npm.made
    /\ "variants" \notin DOMAIN npm
    /\ LET r == makeNPMConfigVariants(heap, nextInst, npm.config)
       IN  /\ heap' = r.heap
           /\ nextInst' = r.next
           /\ npm' = [made |-> TRUE, packageDotJSON |-> npm.packageDotJSON,
                      builtinModules |-> npm.builtinModules, config |-> npm.config,
                      basePlugins |-> heap[npm.config.plugins],
                      variants |-> r.configs]
    /\ UNCHANGED <<pb, iaCall, pc, baseConfig, baseBefore, result, mutated>>

NextNPM ==
    \/ \E entrypoint \in {"", "src/index.server.ts"}, esModuleInterop \in BOOLEAN :
          MakeBaseNPMConfig(entrypoint, esModuleInterop)
    \/ MakeNPMConfigVariants

SpecNPM == InitNPM /\ [][NextNPM]_vars

SeqRange(s) == {s[i] : i \in 1..Len(s)}

\* ------------------------------------------------- the post-build script

NPM_BUILD_DIR == <<"build", "npm">>
ASSETS == <<"README.md", "LICENSE", "package.json", ".npmignore">>
ENTRY_POINTS == <<"main", "module", "types">>

\* str.replace(`${NPM_BUILD_DIR}/`, ''): a path is its sequence of segments;
\* the first place where the segments build, npm are followed by another
\* segment loses them, a path without such a place is left as it is
stripBuildDir(path) ==
    LET hits == {i \in 1..(Len(path) - 2) :
                    path[i] = NPM_BUILD_DIR[1] /\ path[i + 1] = NPM_BUILD_DIR[2]}
    IN  IF hits = {} THEN path
        ELSE LET i == CHOOSE j \in hits : \A k \in hits : j <= k
             IN  SubSeq(path, 1, i - 1) \o SubSeq(path, i + 2, Len(path))

\* the entry points rewritten, then delete pkgJson.scripts / .volta / .jest
modifyPackageJson(pkgJson) ==
    [k \in (DOMAIN pkgJson) \ {"scripts", "volta", "jest"} |->
        IF (\E q \in 1..Len(ENTRY_POINTS) : ENTRY_POINTS[q] = k) /\ pkgJson[k] # <<>>
        THEN stripBuildDir(pkgJson[k])
        ELSE pkgJson[k]]

\* package.json files the script may find
EntryPaths == {<<"build", "npm", "dist", "index.js">>, <<"dist", "index.js">>}
PackageJsons ==
    UNION {{[k \in {"name"} \cup eps \cup extra |->
                CASE k = "name" -> <<"@sentry/pkg">>
                  [] k \in {"scripts", "volta", "jest"} -> <<"{}">>
                  [] OTHER -> f[k]] : f \in [eps -> EntryPaths]} :
           eps \in SUBSET {"main", "module", "types"},
           extra \in {{}, {"scripts", "volta", "jest"}}}

AssetSet == {ASSETS[q] : q \in 1..Len(ASSETS)}

\* the script starts: some of the assets exist in the package directory, the
\* build directory exists or not and holds no asset yet
InitPostbuild ==
    /\ heap = <<>>
    /\ iaCall = NoCall
    /\ pc = "start"
    /\ nextInst = FirstFreeInst
    /\ baseConfig = NoConfig
    /\ baseBefore = NoConfig
    /\ result = NoResult
    /\ mutated = <<>>
    /\ npm = NoNpm
    /\ pb \in {[pc |-> "checkDir", exitCode |-> -1, missing |-> "",
                existing |-> ex, packageJson |-> pj, buildDirExists |-> bd,
                skipBundleCopy |-> skip,
                copied |-> <<>>, buildFiles |-> {}, bundlesDir |-> FALSE,
                bundleCopy |-> FALSE, written |-> FALSE, buildPackageJson |-> <<>>] :
                ex \in SUBSET AssetSet, pj \in PackageJsons, bd \in BOOLEAN, skip \in BOOLEAN}

\* if (!fs.existsSync(path.resolve(NPM_BUILD_DIR))) { ...; process.exit(1) }
CheckBuildDir ==
    /\ pb.pc = "checkDir"
    /\ pb' = IF pb.buildDirExists
             THEN [pb EXCEPT !.pc = "assets"]
             ELSE [pb EXCEPT !.pc = "exit", !.exitCode = 1]
    /\ UNCHANGED <<heap, iaCall, pc, nextInst, baseConfig, baseBefore, result, mutated, npm>>

\* one pass of ASSETS.forEach on the next asset: exit(1) when it does not
\* exist, copy it into the build directory otherwise
copyAsset(state, asset) ==
    IF asset \notin state.existing
    THEN [state EXCEPT !.pc = "exit", !.exitCode = 1, !.missing = asset]
    ELSE [state EXCEPT !.copied = Append(@, asset), !.buildFiles = @ \cup {asset},
                       !.buildPackageJson = IF asset = "package.json" THEN state.packageJson ELSE @,
                       !.pc = IF Len(state.copied) + 1 = Len(ASSETS) THEN "bundles" ELSE "assets"]

CopyAsset ==
    /\ pb.pc = "assets"
    /\ pb' = copyAsset(pb, ASSETS[Len(pb.copied) + 1])
    /\ UNCHANGED <<heap, iaCall, pc, nextInst, baseConfig, baseBefore, result, mutated, npm>>

\* the CDN bundles are copied unless -skipBundleCopy was given
CopyBundles ==
    /\ pb.pc = "bundles"
    /\ pb' = IF pb.skipBundleCopy
             THEN [pb EXCEPT !.pc = "packageJson"]
             ELSE [pb EXCEPT !.pc = "packageJson", !.bundlesDir = TRUE, !.bundleCopy = TRUE]
    /\ UNCHANGED <<heap, iaCall, pc, nextInst, baseConfig, baseBefore, result, mutated, npm>>

\* the package.json copied into the build directory is read, modified and written back
WritePackageJson ==
    /\ pb.pc = "packageJson"
    /\ pb' = [pb EXCEPT !.pc = "done", !.exitCode = 0, !.written = TRUE,
                        !.buildPackageJson = modifyPackageJson(pb.buildPackageJson)]
    /\ UNCHANGED <<heap, iaCall, pc, nextInst, baseConfig, baseBefore, result, mutated, npm>>

NextPostbuild == CheckBuildDir \/ CopyAsset \/ CopyBundles \/ WritePackageJson

SpecPostbuild == InitPostbuild /\ [][NextPostbuild]_vars

\* ================================================================= claims

\* ---- the bundle build, checked under Spec

Kinds(s) == [i \in 1..Len(s) |-> s[i].kind]
Minified(V) == \E q \in 1..Len(V) : V[q] = terserPlugin
DebugEnabled(V) == \E q \in 1..Len(V) : IsDebugFlag(V[q], TRUE)
DebugStripped(V) == \E q \in 1..Len(V) : IsDebugFlag(V[q], FALSE)

\* the pipeline V is the base pipeline P with `inserted` plugins spliced in
\* right before P's last element: a debug flag plugin set to `enabled`, then
\* (when minify) the minifier
IsVariantOf(V, P, enabled, minify) ==
    LET n == Len(P)
    IN  /\ Len(V) = n + (IF minify THEN 2 ELSE 1)
        /\ SubSeq(V, 1, n - 1) = Front(P)
        /\ IsDebugFlag(V[n], enabled)
        /\ minify => V[n + 1] = terserPlugin
        /\ Last(V) = Last(P)
        /\ Last(V).name = LicensePluginName

\* C1: for a base pipeline P that ends with the license plugin, exactly three
\* configs are returned, and their pipelines are P without its last element
\* followed by debugFlag(true), license (plain), by debugFlag(true), minifier,
\* license (minified-debug) and by debugFlag(false), minifier, license
\* (stripped): the license plugin is last in each, the minifier right before it
\* and right after the debug flag plugin.
C1_VariantPipelines ==
    Expanded =>
        /\ Len(result.configs) = 3
        /\ \E i, j, k \in 1..3 :
              /\ i # j /\ i # k /\ j # k
              /\ IsVariantOf(VariantPlugins(i), BasePlugins, TRUE, FALSE)
              /\ IsVariantOf(VariantPlugins(j), BasePlugins, TRUE, TRUE)
              /\ IsVariantOf(VariantPlugins(k), BasePlugins, FALSE, TRUE)

C1_Witness ==
    /\ Expanded
    /\ Kinds(BasePlugins) = <<"resolve", "replace", "license">>
    /\ \E k \in 1..3 : Kinds(VariantPlugins(k)) = <<"resolve", "replace", "replace", "terser", "license">>

\* C2 as stated: the first returned config is the non-minified one with debug
\* logging, the second the minified one with debug logging, the third the
\* minified one with debug logging stripped.
C2_AsStated ==
    Expanded =>
        /\ Len(result.configs) = 3
        /\ ~Minified(VariantPlugins(1)) /\ DebugEnabled(VariantPlugins(1))
        /\ Minified(VariantPlugins(2)) /\ DebugEnabled(VariantPlugins(2))
        /\ Minified(VariantPlugins(3)) /\ DebugStripped(VariantPlugins(3))

\* C2 (amended): the first returned config is the non-minified one with debug
\* logging (.js), the second the minified one with debug logging stripped
\* (.min.js), the third the minified one with debug logging (.debug.min.js).
C2_VariantOrder ==
    Expanded =>
        /\ Len(result.configs) = 3
        /\ ~Minified(VariantPlugins(1)) /\ DebugEnabled(VariantPlugins(1))
        /\ ~DebugStripped(VariantPlugins(1))
        /\ result.configs[1].output.file = baseBefore.config.output.file \o ".js"
        /\ Minified(VariantPlugins(2)) /\ DebugStripped(VariantPlugins(2))
        /\ ~DebugEnabled(VariantPlugins(2))
        /\ result.configs[2].output.file = baseBefore.config.output.file \o ".min.js"
        /\ Minified(VariantPlugins(3)) /\ DebugEnabled(VariantPlugins(3))
        /\ ~DebugStripped(VariantPlugins(3))
        /\ result.configs[3].output.file = baseBefore.config.output.file \o ".debug.min.js"

C2_Witness ==
    /\ Expanded
    /\ baseBefore.config.output.format = "iife"
    /\ Len(BasePlugins) = 4
    /\ Minified(VariantPlugins(2)) /\ DebugStripped(VariantPlugins(2))

\* C3: makeBundleConfigVariants fails with the configuration error (the failed
\* assertion) and returns no config both for an empty pipeline and for one
\* whose last element is not named rollup-plugin-license, the error being of
\* the same kind in both cases; it succeeds for every other pipeline.
C3_SameConfigurationError ==
    (pc \in {"expanded", "failed"}) =>
        IF Len(BasePlugins) > 0 /\ Last(BasePlugins).name = LicensePluginName
        THEN result.status = "ok" /\ Len(result.configs) = 3
        ELSE result.status = "AssertionError" /\ result.configs = <<>>

\* C7: the three returned configs have distinct output files (base file plus
\* .js, .min.js, .debug.min.js); each has a plugin array of its own, so an edit
\* of one variant's array changes neither another variant's nor the base's;
\* the base config is as it was before the call; all share the base's input
\* and the very plugin instances that came from the base.
C7_VariantsIndependent ==
    Expanded =>
        /\ Len(result.configs) = 3
        /\ {result.configs[k].output.file : k \in 1..3}
              = {baseBefore.config.output.file \o sfx : sfx \in {".js", ".min.js", ".debug.min.js"}}
        /\ Cardinality({result.configs[k].output.file : k \in 1..3}) = 3
        /\ \A k \in 1..3 : result.configs[k].plugins # baseConfig.plugins
        /\ \A k, l \in 1..3 : k # l => result.configs[k].plugins # result.configs[l].plugins
        /\ \A k \in 1..3 :
              (\A q \in 1..Len(mutated) : mutated[q] # k)
                  => heap[result.configs[k].plugins] = result.arrays[k]
        /\ baseConfig = baseBefore.config
        /\ heap[baseConfig.plugins] = baseBefore.plugins
        /\ \A k \in 1..3 :
              /\ result.configs[k].input = baseConfig.input
              /\ SubSeq(VariantPlugins(k), 1, Len(BasePlugins) - 1) = Front(BasePlugins)
              /\ Last(VariantPlugins(k)) = Last(BasePlugins)

C7_Witness ==
    /\ Expanded
    /\ Len(mutated) = 1
    /\ heap[result.configs[mutated[1]].plugins] # result.arrays[mutated[1]]
    /\ Len(BasePlugins) >= 2

\* C9 as stated: makeBaseBundleConfig builds exactly four plugins in the order
\* transpilation, module resolution, platform marker, license banner.
C9_AsStated ==
    (pc = "built") =>
        Kinds(heap[baseConfig.plugins]) = <<"typescript", "resolve", "replace", "license">>

\* C9 (amended): for standalone and add-on artifacts and every target level,
\* makeBaseBundleConfig builds exactly four plugins in the order transpilation,
\* platform marker, module resolution, license banner, the license banner last.
C9_BasePipelineOrder ==
    (pc = "built") =>
        LET P == heap[baseConfig.plugins]
        IN  /\ Kinds(P) = <<"typescript", "replace", "resolve", "license">>
            /\ P[2].opt = "__SENTRY_BROWSER_BUNDLE__=true"
            /\ P[1].opt \in {"es5", "es6"}
            /\ getLastElement(P).name = LicensePluginName

C9_Witness ==
    /\ pc = "built"
    /\ baseConfig.output.format = "cjs"
    /\ heap[baseConfig.plugins][1].opt = "es5"
    /\ Len(heap[baseConfig.plugins]) = 4

\* ---- the package build, checked under SpecNPM

\* C10: as a set, the external list is the platform's built-in module names
\* together with every key of the manifest's dependencies, devDependencies and
\* peerDependencies, a category the manifest lacks contributing nothing; for
\* {dependencies:{a}, devDependencies:{b}, peerDependencies:{}} and built-ins
\* [fs, path] it is {fs, path, a, b}.
C10_ExternalSet ==
    npm.made =>
        /\ SeqRange(npm.config.external)
              = SeqRange(npm.builtinModules)
                  \cup UNION {SeqRange(npm.packageDotJSON[c]) : c \in DOMAIN npm.packageDotJSON}
        /\ (/\ npm.builtinModules = <<"fs", "path">>
            /\ npm.packageDotJSON = [dependencies |-> <<"a">>, devDependencies |-> <<"b">>,
                                     peerDependencies |-> <<>>])
              => SeqRange(npm.config.external) = {"fs", "path", "a", "b"}

C10_Witness ==
    /\ npm.made
    /\ npm.builtinModules = <<"fs", "path">>
    /\ DOMAIN npm.packageDotJSON = {"dependencies", "peerDependencies"}
    /\ npm.packageDotJSON["peerDependencies"] = <<"c">>
    /\ "c" \in SeqRange(npm.config.external)

\* ---- the post-build script, checked under SpecPostbuild

\* C11: when the script fails because one of the four required assets does
\* not exist, it exits with a non-zero status and leaves no partial output: no
\* asset has been copied into the build directory and the build directory's
\* package.json has not been rewritten, whichever asset is the missing one.
C11_NoPartialOutput ==
    (pb.pc = "exit" /\ pb.missing \in AssetSet) =>
        /\ pb.exitCode # 0
        /\ pb.copied = <<>>
        /\ pb.buildFiles = {}
        /\ ~pb.written

\* what the plugins of a pipeline are, whichever objects hold them
NoInst(P) == [i \in 1..Len(P) |-> [kind |-> P[i].kind, name |-> P[i].name, opt |-> P[i].opt]]

\* C12: makeNPMConfigVariants returns exactly two configs, one with output
\* format cjs and one with esm, each with an output directory of its own; in
\* both the plugin sequence has the length and the order of the base's, and
\* input, external, treeshake (disabled) and every output field of the base
\* (none of which is format or dir) are as in the base.
C12_NPMVariants ==
    ("variants" \in DOMAIN npm) =>
        LET V == npm.variants
            base == npm.config
        IN  /\ Len(V) = 2
            /\ {V[k].output.format : k \in 1..Len(V)} = {"cjs", "esm"}
            /\ V[1].output.dir # V[2].output.dir
            /\ \A k \in 1..Len(V) :
                  /\ Len(heap[V[k].plugins]) = Len(npm.basePlugins)
                  /\ NoInst(heap[V[k].plugins]) = NoInst(npm.basePlugins)
                  /\ heap[base.plugins] = npm.basePlugins
                  /\ V[k].input = base.input
                  /\ V[k].external = base.external
                  /\ V[k].treeshake = FALSE /\ base.treeshake = FALSE
                  /\ DOMAIN V[k].output = (DOMAIN base.output) \cup {"format", "dir"}
                  /\ {"format", "dir"} \cap DOMAIN base.output = {}
                  /\ \A f \in DOMAIN base.output : V[k].output[f] = base.output[f]

C12_Witness ==
    /\ "variants" \in DOMAIN npm
    /\ Len(npm.variants) = 2
    /\ npm.variants[2].output.format = "esm"
    /\ npm.variants[2].output.interop = "auto"
    /\ Len(npm.config.external) >= 3
    /\ Kinds(heap[npm.variants[2].plugins]) = <<"resolve", "sucrase", "re">>

\* ---- insertAt, checked under SpecInsertAt

\* C4 as stated: index -1 puts the inserted item immediately before the last
\* element of the original sequence, and index -2 immediately before its
\* second-to-last element.
C4_AsStated ==
    /\ (OneItem /\ iaCall.index = -1 /\ Len(Given) >= 1) =>
          Returned = SubSeq(Given, 1, Len(Given) - 1) \o <<Item>>
                        \o SubSeq(Given, Len(Given), Len(Given))
    /\ (OneItem /\ iaCall.index = -2 /\ Len(Given) >= 2) =>
          Returned = SubSeq(Given, 1, Len(Given) - 2) \o <<Item>>
                        \o SubSeq(Given, Len(Given) - 1, Len(Given))

\* C4 (amended): a negative index counts from the end of the new, longer
\* sequence: index -1 puts the inserted item after the last element of the
\* original sequence (it becomes the last element of the result), and index -2
\* puts it immediately before the last element of the original sequence.
C4_NegativeIndexFromNewEnd ==
    /\ (OneItem /\ iaCall.index = -1) =>
          Returned = Given \o <<Item>>
    /\ (OneItem /\ iaCall.index = -2 /\ Len(Given) >= 1) =>
          Returned = SubSeq(Given, 1, Len(Given) - 1) \o <<Item>>
                        \o SubSeq(Given, Len(Given), Len(Given))

C4_Witness ==
    /\ OneItem /\ iaCall.index = -2 /\ Len(Given) >= 2
    /\ At(Returned, Len(Given) - 1) = Item

\* C5 as stated: for every non-negative index i, however large, the result of
\* insertAt(s, i, x) has length len(s)+1, holds x at position i, and keeps the
\* original elements before and after it in order.
C5_AsStated ==
    (OneItem /\ iaCall.index >= 0) =>
        /\ Len(Returned) = Len(Given) + 1
        /\ HasAt(Returned, iaCall.index)
        /\ At(Returned, iaCall.index) = Item
        /\ SubSeq(Returned, 1, iaCall.index) = SubSeq(Given, 1, iaCall.index)
        /\ SubSeq(Returned, iaCall.index + 2, Len(Returned))
              = SubSeq(Given, iaCall.index + 1, Len(Given))

\* C5 (amended): for every non-negative index i the result of insertAt(s, i, x)
\* has length len(s)+1 and holds x at position min(i, len(s)), which is i
\* whenever i <= len(s) (a larger i appends x at the end); the elements before
\* that position and the elements after it are the original ones in their
\* original order.
C5_NonNegativeIndex ==
    (OneItem /\ iaCall.index >= 0) =>
        LET p == Min(iaCall.index, Len(Given))
        IN  /\ Len(Returned) = Len(Given) + 1
            /\ At(Returned, p) = Item
            /\ SubSeq(Returned, 1, p) = SubSeq(Given, 1, p)
            /\ SubSeq(Returned, p + 2, Len(Returned)) = SubSeq(Given, p + 1, Len(Given))

C5_Witness ==
    /\ OneItem /\ iaCall.index >= 1 /\ iaCall.index < Len(Given)
    /\ At(Returned, iaCall.index) = Item

\* C6: for every negative index i with |i| <= len(s)+1, the result of
\* insertAt(s, i, x) holds x at position len(s)+1+i of the result, which is
\* one element longer than s.
C6_NegativeIndexPosition ==
    (OneItem /\ iaCall.index < 0 /\ -iaCall.index <= Len(Given) + 1) =>
        /\ Len(Returned) = Len(Given) + 1
        /\ HasAt(Returned, Len(Given) + 1 + iaCall.index)
        /\ At(Returned, Len(Given) + 1 + iaCall.index) = Item

C6_Witness ==
    /\ OneItem /\ iaCall.index = -(Len(Given) + 1) /\ Len(Given) >= 2
    /\ At(Returned, 0) = Item

\* C8: insertAt never mutates the sequence it is given: after a call with any
\* index and any number of inserted items the input array (and every other
\* array that existed) has the content it had before, and the result is a
\* different array object.
C8_InputNotMutated ==
    iaCall.made =>
        /\ heap[iaCall.arr] = iaCall.before
        /\ iaCall.ret # iaCall.arr
        /\ \A r \in 1..Len(iaCall.heapBefore) : heap[r] = iaCall.heapBefore[r]

C8_Witness ==
    /\ iaCall.made /\ Len(iaCall.insertees) = 2
    /\ iaCall.index > Len(Given) /\ Len(Given) >= 1
    /\ Len(Returned) = Len(Given) + 2

====
